---- MODULE Spec2Model ----
(***************************************************************************)
(* City planner: scoring model (constraints.py), the API layer's breakdown *)
(* (app.py), the demo fixture and solver driver (solve.py) and the input   *)
(* decoding (app.py, benchmark.py).                                         *)
(*                                                                         *)
(* Python floats are modelled as fixed-point thousandths: float(3) is 3000 *)
(* and math.dist is the integer square root of the squared distance of    *)
(* coordinates that are themselves thousandths.                            *)
(***************************************************************************)
EXTENDS Integers, Sequences, FiniteSets, TLC

VARIABLES
    solution,    \* the CityPlanSolution being worked on, or None
    breakdown,   \* the list get_score_breakdown returned last, <<>> when none
    best,        \* the solver's best solution so far / the returned solution
    pc,          \* where the running operation stands
    data,        \* the decoded JSON input of the running operation
    files,       \* plan names that have a file under TEST_DATA_DIR
    request,     \* the request being handled, None when none
    response,    \* the HTTP response of the handler, None when none
    calls,       \* how often the handler loaded a problem / invoked the solver
    clock,       \* local-search steps the running solver has spent
    heap,        \* the solution instances alive, and the solve calls that
                 \* read and wrote each
    runs,        \* the solve calls in progress
    main,        \* the program running and where it stands
    returned     \* what get_score_breakdown returned on the solution since
                 \* it was last modified, call by call

vars == <<solution, breakdown, best, pc, data, files, request, response,
          calls, clock, heap, runs, main, returned>>

----------------------------------------------------------------------------
(* Bounds of the model *)

\* the longest buildings list of an input
MaxPlacements == 3
\* the longest locations list of an input
MaxLocations == 2
\* the local-search steps that fit into the solver's time budget
MaxSteps == 2

\* calls of get_score_breakdown on a solution between two modifications
MaxCalls == 2

----------------------------------------------------------------------------
(* domain.py *)

BuildingType == {"HOUSE", "SCHOOL", "PHARMACY", "HOSPITAL", "SHOP", "OFFICE"}

\* the members of BuildingType in declaration order
BuildingTypeOrder == <<"HOUSE", "SCHOOL", "PHARMACY", "HOSPITAL", "SHOP", "OFFICE">>

ZoneType == {"RESIDENTIAL", "COMMERCIAL", "MIXED", "INDUSTRIAL", "RESTRICTED"}

\* Python's None, comparable with every record of the model
None == [isNone |-> TRUE]

\* Location(...): a dataclass, compared field by field
Location(id, name, x, y, zone, cost_factor, allowed_building_types) ==
    [id |-> id, name |-> name, x |-> x, y |-> y, zone |-> zone,
     cost_factor |-> cost_factor,
     allowed_building_types |-> allowed_building_types]

\* BuildingPlacement(id, building_type, location=None)
BuildingPlacement(id, building_type, location) ==
    [id |-> id, building_type |-> building_type, location |-> location]

\* CityPlanSolution(id, location_list, building_placement_list, score=None)
CityPlanSolution(id, location_list, building_placement_list) ==
    [id |-> id, location_list |-> location_list,
     building_placement_list |-> building_placement_list, score |-> None]

\* a variant whose planning variable allows None as a value
locationRange_allows_unassigned(sol) ==
    {sol.location_list[i] : i \in DOMAIN sol.location_list} \cup {None}

\* ValueRangeProvider(id="locationRange"): the values the planning variable
\* BuildingPlacement.location takes are the members of location_list
locationRange(sol) == {sol.location_list[i] : i \in DOMAIN sol.location_list}

----------------------------------------------------------------------------
(* helpers *)

Range(s) == {s[i] : i \in DOMAIN s}

\* sum of f[e] over the finite set S; S and f are evaluated once, as the
\* value arg
SumOver(S, f) ==
    LET Sum(arg) ==
            LET sum[T \in SUBSET arg.S] ==
                    IF T = {} THEN 0
                    ELSE LET e == CHOOSE e \in T : TRUE
                         IN arg.f[e] + sum[T \ {e}]
            IN sum[arg.S]
    IN CHOOSE total \in {Sum(arg) : arg \in {[S |-> S, f |-> f]}} : TRUE

\* floor of the square root of n, 0 <= n < 2^30, by bisection
Isqrt(n) ==
    LET between[lo \in Nat, hi \in Nat] ==
            IF lo >= hi THEN lo
            ELSE LET mid == (lo + hi + 1) \div 2
                 IN IF mid * mid <= n THEN between[mid, hi]
                    ELSE between[lo, mid - 1]
    IN between[0, 32767]

\* float(v) of a JSON number: the value in thousandths
float(v) == v * 1000

\* int(v) of a JSON integer
int(v) == v

----------------------------------------------------------------------------
(* constraints.py *)

\* a variant that follows the docstring's "Industry in INDUSTRIAL": a HOUSE is
\* let into an INDUSTRIAL zone
is_building_type_allowed_in_zone_industrial(building_type, zone) ==
    IF zone = "RESTRICTED" THEN FALSE
    ELSE IF building_type = "HOUSE" /\ zone = "INDUSTRIAL" THEN TRUE
    ELSE zone \in (CASE building_type \in {"HOUSE", "PHARMACY"}
                           -> {"RESIDENTIAL", "MIXED", "COMMERCIAL"}
                     [] building_type \in {"OFFICE", "SHOP"}
                           -> {"COMMERCIAL", "MIXED"}
                     [] OTHER -> {"RESIDENTIAL", "MIXED"})

\* is_building_type_allowed_in_zone(building_type, zone)
is_building_type_allowed_in_zone(building_type, zone) ==
    IF zone = "RESTRICTED" THEN FALSE
    ELSE IF building_type = "HOUSE"
            /\ zone \in {"RESIDENTIAL", "MIXED", "COMMERCIAL"} THEN TRUE
    ELSE IF building_type = "OFFICE"
            /\ zone \in {"COMMERCIAL", "MIXED"} THEN TRUE
    ELSE IF building_type = "SHOP"
            /\ zone \in {"COMMERCIAL", "MIXED"} THEN TRUE
    ELSE IF building_type = "SCHOOL"
            /\ zone \in {"RESIDENTIAL", "MIXED"} THEN TRUE
    ELSE IF building_type = "HOSPITAL"
            /\ zone \in {"RESIDENTIAL", "MIXED"} THEN TRUE
    ELSE IF building_type = "PHARMACY"
            /\ zone \in {"RESIDENTIAL", "MIXED", "COMMERCIAL"} THEN TRUE
    ELSE FALSE

\* calc_distance(bp1, bp2): math.dist of the two locations' (x, y)
calc_distance(bp1, bp2) ==
    LET dx == bp1.location.x - bp2.location.x
        dy == bp1.location.y - bp2.location.y
    IN Isqrt(dx * dx + dy * dy)

\* cf.for_each(BuildingPlacement): every placement of the solution
for_each(sol) == DOMAIN sol.building_placement_list

\* cf.for_each_unique_pair(BuildingPlacement): every pair of two placements,
\* the one with the lower planning id first
for_each_unique_pair(sol) ==
    LET bps == sol.building_placement_list
    IN {p \in (DOMAIN bps) \X (DOMAIN bps) : bps[p[1]].id < bps[p[2]].id}

\* a variant that rewards instead of penalizing
penalize_hard_reward(name, matches) ==
    [constraintName |-> name, hardPenalty |-> Cardinality(matches),
     softPenalty |-> 0]

\* .penalize(HardSoftScore.ONE_HARD).as_constraint(name) over the matches
penalize_hard(name, matches) ==
    [constraintName |-> name, hardPenalty |-> 0 - Cardinality(matches),
     softPenalty |-> 0]

\* .penalize(HardSoftScore.ONE_SOFT, weigher).as_constraint(name): weight is
\* the weigher's value on each match
penalize_soft(name, matches, weight) ==
    [constraintName |-> name, hardPenalty |-> 0,
     softPenalty |-> 0 - SumOver(matches, weight)]

build_disallowed_location_constraint(sol) ==
    LET bps == sol.building_placement_list
    IN penalize_hard("Building in disallowed location (HARD)",
          {i \in for_each(sol) :
              /\ bps[i].location # None
              /\ bps[i].building_type
                     \notin Range(bps[i].location.allowed_building_types)})

build_house_school_distance_constraint(sol) ==
    LET bps == sol.building_placement_list
        matches == {p \in for_each_unique_pair(sol) :
              /\ \/ /\ bps[p[1]].building_type = "HOUSE"
                    /\ bps[p[2]].building_type = "SCHOOL"
                 \/ /\ bps[p[1]].building_type = "SCHOOL"
                    /\ bps[p[2]].building_type = "HOUSE"
              /\ bps[p[1]].location # None
              /\ bps[p[2]].location # None}
    IN penalize_soft("Distance between HOUSE and SCHOOL (SOFT)", matches,
          [p \in matches |-> calc_distance(bps[p[1]], bps[p[2]])])

build_house_office_distance_constraint(sol) ==
    LET bps == sol.building_placement_list
        matches == {p \in for_each_unique_pair(sol) :
              /\ \/ /\ bps[p[1]].building_type = "HOUSE"
                    /\ bps[p[2]].building_type = "OFFICE"
                 \/ /\ bps[p[1]].building_type = "OFFICE"
                    /\ bps[p[2]].building_type = "HOUSE"
              /\ bps[p[1]].location # None
              /\ bps[p[2]].location # None}
    IN penalize_soft("Distance between HOUSE and OFFICE (SOFT)", matches,
          [p \in matches |-> calc_distance(bps[p[1]], bps[p[2]])])

\* a variant without the "bp1.location is not None" test: two unassigned
\* placements count as sharing a location
build_location_uniqueness_constraint_no_none_test(sol) ==
    LET bps == sol.building_placement_list
    IN penalize_hard("Location uniqueness (HARD)",
          {p \in for_each_unique_pair(sol) :
              bps[p[1]].location = bps[p[2]].location})

build_location_uniqueness_constraint(sol) ==
    LET bps == sol.building_placement_list
    IN penalize_hard("Location uniqueness (HARD)",
          {p \in for_each_unique_pair(sol) :
              /\ bps[p[1]].location # None
              /\ bps[p[1]].location = bps[p[2]].location})

build_zoning_mismatch_constraint(sol) ==
    LET bps == sol.building_placement_list
    IN penalize_hard("Zoning mismatch (HARD)",
          {i \in for_each(sol) :
              /\ bps[i].location # None
              /\ ~is_building_type_allowed_in_zone(bps[i].building_type,
                                                   bps[i].location.zone)})

build_cost_constraint(sol) ==
    LET bps == sol.building_placement_list
        matches == {i \in for_each(sol) : bps[i].location # None}
    IN penalize_soft("Building cost minimization (SOFT)", matches,
          [i \in matches |-> bps[i].location.cost_factor])

\* define_constraints: the six constraints, each evaluated on the solution
define_constraints(sol) ==
    << build_disallowed_location_constraint(sol),
       build_house_school_distance_constraint(sol),
       build_house_office_distance_constraint(sol),
       build_zoning_mismatch_constraint(sol),
       build_location_uniqueness_constraint(sol),
       build_cost_constraint(sol) >>

\* the HardSoftScore of the solution under define_constraints: the sum of
\* the constraints' penalties
HardSoftScore(sol) ==
    LET cs == define_constraints(sol)
    IN [hardValue |-> SumOver(DOMAIN cs, [k \in DOMAIN cs |-> cs[k].hardPenalty]),
        softValue |-> SumOver(DOMAIN cs, [k \in DOMAIN cs |-> cs[k].softPenalty])]

----------------------------------------------------------------------------
(* app.py: get_score_breakdown *)

\* the truth value of bp.location: None is false, a Location instance true
Truthy(location) == location # None

\* a variant whose inner loop is range(i, n): a placement is paired with
\* itself
IndexPairs_from_i(n) == {p \in (1..n) \X (1..n) : p[1] <= p[2]}

\* a variant whose inner loop is range(n): every pair is visited twice
IndexPairs_all(n) == {p \in (1..n) \X (1..n) : p[1] # p[2]}

\* for i in range(n): for j in range(i+1, n)
IndexPairs(n) == {p \in (1..n) \X (1..n) : p[1] < p[2]}

get_score_breakdown(sol) ==
    LET placements == sol.building_placement_list
        n == Len(placements)
        disallowed_count == Cardinality({i \in 1..n :
            /\ Truthy(placements[i].location)
            /\ placements[i].building_type
                   \notin Range(placements[i].location.allowed_building_types)})
        zoning_count == Cardinality({i \in 1..n :
            /\ Truthy(placements[i].location)
            /\ ~is_building_type_allowed_in_zone(placements[i].building_type,
                                                 placements[i].location.zone)})
        uniq_count == Cardinality({p \in IndexPairs(n) :
            /\ Truthy(placements[p[1]].location)
            /\ Truthy(placements[p[2]].location)
            /\ placements[p[1]].location = placements[p[2]].location})
        hs == {p \in IndexPairs(n) :
            /\ Truthy(placements[p[1]].location)
            /\ Truthy(placements[p[2]].location)
            /\ \/ /\ placements[p[1]].building_type = "HOUSE"
                  /\ placements[p[2]].building_type = "SCHOOL"
               \/ /\ placements[p[1]].building_type = "SCHOOL"
                  /\ placements[p[2]].building_type = "HOUSE"}
        hs_sum == SumOver(hs,
            [p \in hs |-> calc_distance(placements[p[1]], placements[p[2]])])
        ho == {p \in IndexPairs(n) :
            /\ Truthy(placements[p[1]].location)
            /\ Truthy(placements[p[2]].location)
            /\ \/ /\ placements[p[1]].building_type = "HOUSE"
                  /\ placements[p[2]].building_type = "OFFICE"
               \/ /\ placements[p[1]].building_type = "OFFICE"
                  /\ placements[p[2]].building_type = "HOUSE"}
        ho_sum == SumOver(ho,
            [p \in ho |-> calc_distance(placements[p[1]], placements[p[2]])])
        assigned == {i \in 1..n : Truthy(placements[i].location)}
        cost_sum == SumOver(assigned,
            [i \in assigned |-> placements[i].location.cost_factor])
    IN << [constraintName |-> "Building in disallowed location (HARD)",
           hardPenalty |-> 0 - disallowed_count, softPenalty |-> 0],
          [constraintName |-> "Zoning mismatch (HARD)",
           hardPenalty |-> 0 - zoning_count, softPenalty |-> 0],
          [constraintName |-> "Location uniqueness (HARD)",
           hardPenalty |-> 0 - uniq_count, softPenalty |-> 0],
          [constraintName |-> "Distance between HOUSE and SCHOOL (SOFT)",
           hardPenalty |-> 0, softPenalty |-> 0 - hs_sum],
          [constraintName |-> "Distance between HOUSE and OFFICE (SOFT)",
           hardPenalty |-> 0, softPenalty |-> 0 - ho_sum],
          [constraintName |-> "Building cost minimization (SOFT)",
           hardPenalty |-> 0, softPenalty |-> 0 - cost_sum] >>

----------------------------------------------------------------------------
(* app.py: build_solution_from_data *)

\* an exception raised to the caller
Raise(exception, what) == [raised |-> exception, what |-> what]

IsError(v) == "raised" \in DOMAIN v

\* d.get(key, default)
Get(d, key, default) == IF key \in DOMAIN d THEN d[key] ELSE default

\* the first key of keys that d lacks, None when it has them all: d[key]
\* raises KeyError on it
RECURSIVE FirstMissing(_, _)
FirstMissing(d, keys) ==
    IF keys = <<>> THEN None
    ELSE IF Head(keys) \notin DOMAIN d THEN Raise("KeyError", Head(keys))
    ELSE FirstMissing(d, Tail(keys))

\* a variant that reads the name with loc.get("name", "")
decode_location_default_name(loc) ==
    LET missing == FirstMissing(loc, <<"id", "x", "y", "zone">>)
        allowed == Get(loc, "allowed_building_types", <<>>)
    IN IF missing # None THEN missing
       ELSE IF loc.zone \notin ZoneType THEN Raise("ValueError", "zone")
       ELSE IF Range(allowed) \ BuildingType # {}
            THEN Raise("ValueError", "allowed_building_types")
       ELSE Location(int(loc.id), Get(loc, "name", ""), float(loc.x),
                     float(loc.y), loc.zone,
                     float(Get(loc, "cost_factor", 1)), allowed)

\* Location(id=int(loc["id"]), name=loc["name"], x=float(loc["x"]), ...)
decode_location(loc) ==
    LET missing == FirstMissing(loc, <<"id", "name", "x", "y", "zone">>)
        allowed == Get(loc, "allowed_building_types", <<>>)
    IN IF missing # None THEN missing
       ELSE IF loc.zone \notin ZoneType THEN Raise("ValueError", "zone")
       ELSE IF Range(allowed) \ BuildingType # {}
            THEN Raise("ValueError", "allowed_building_types")
       ELSE Location(int(loc.id), loc.name, float(loc.x), float(loc.y),
                     loc.zone, float(Get(loc, "cost_factor", 1)), allowed)

\* BuildingPlacement(id=int(b["id"]),
\*                   building_type=BuildingType(b["building_type"]),
\*                   location=None)
decode_building(b) ==
    LET missing == FirstMissing(b, <<"id", "building_type">>)
    IN IF missing # None THEN missing
       ELSE IF b.building_type \notin BuildingType
            THEN Raise("ValueError", "building_type")
       ELSE BuildingPlacement(int(b.id), b.building_type, None)

\* the exception the first failing element of the list raises, None when
\* every element decodes
RECURSIVE FirstError(_)
FirstError(decoded) ==
    IF decoded = <<>> THEN None
    ELSE IF IsError(Head(decoded)) THEN Head(decoded)
    ELSE FirstError(Tail(decoded))

\* the solution the two loops build from the raw lists, or the exception
\* the first failing element raises
build_solution(sol_id, locs_raw, bld_raw) ==
    LET location_list == [i \in DOMAIN locs_raw |-> decode_location(locs_raw[i])]
        building_list == [i \in DOMAIN bld_raw |-> decode_building(bld_raw[i])]
    IN IF FirstError(location_list) # None THEN FirstError(location_list)
       ELSE IF FirstError(building_list) # None THEN FirstError(building_list)
       ELSE CityPlanSolution(sol_id, location_list, building_list)

build_solution_from_data(d) ==
    build_solution(Get(d, "id", "NoNamePlan"), Get(d, "locations", <<>>),
                   Get(d, "buildings", <<>>))

(* benchmark.py: load_solution_from_json, on the decoded file *)
benchmark_load_solution_from_json(d) ==
    build_solution(Get(d, "id", "PlanX"), Get(d, "locations", <<>>),
                   Get(d, "buildings", <<>>))

----------------------------------------------------------------------------
(* Inputs: decoded JSON bodies *)

\* the location objects inputs are made of: the demo locations and an
\* industrial one that leaves cost_factor to its default
RawLocationPool ==
    << [id |-> 1, name |-> "Loc1", x |-> 0, y |-> 0, zone |-> "RESIDENTIAL",
        cost_factor |-> 3,
        allowed_building_types |-> <<"HOUSE", "SCHOOL", "HOSPITAL">>],
       [id |-> 2, name |-> "Loc2", x |-> 10, y |-> 0, zone |-> "COMMERCIAL",
        cost_factor |-> 7,
        allowed_building_types |-> <<"OFFICE", "SHOP", "PHARMACY">>],
       [id |-> 3, name |-> "Loc3", x |-> 5, y |-> 5, zone |-> "MIXED",
        cost_factor |-> 10,
        allowed_building_types |-> <<"HOUSE", "OFFICE", "SCHOOL", "SHOP">>],
       [id |-> 4, name |-> "Loc4", x |-> 20, y |-> 5, zone |-> "RESTRICTED",
        cost_factor |-> 1],
       [id |-> 5, name |-> "Loc5", x |-> 8, y |-> 6, zone |-> "INDUSTRIAL",
        allowed_building_types |-> <<"HOUSE", "OFFICE">>] >>

\* the members of a set of numbers in increasing order
SortedSeq(S) ==
    LET sorted[T \in SUBSET S] ==
            IF T = {} THEN <<>>
            ELSE LET m == CHOOSE m \in T : \A e \in T : m <= e
                 IN <<m>> \o sorted[T \ {m}]
    IN sorted[S]

\* the locations lists of the inputs: up to MaxLocations pool members
RawLocationLists ==
    {[i \in DOMAIN SortedSeq(S) |-> RawLocationPool[SortedSeq(S)[i]]] :
        S \in {T \in SUBSET (DOMAIN RawLocationPool) :
                  Cardinality(T) <= MaxLocations}}

\* the building objects inputs are made of: one of each building type, not
\* listed in the order of their ids
RawBuildingPool ==
    << [id |-> 102, building_type |-> "HOUSE"],
       [id |-> 101, building_type |-> "SCHOOL"],
       [id |-> 103, building_type |-> "OFFICE"],
       [id |-> 104, building_type |-> "SHOP"],
       [id |-> 106, building_type |-> "PHARMACY"],
       [id |-> 105, building_type |-> "HOSPITAL"] >>

\* the buildings lists of the inputs: up to MaxPlacements pool members
RawBuildingLists ==
    {[i \in DOMAIN SortedSeq(S) |-> RawBuildingPool[SortedSeq(S)[i]]] :
        S \in {T \in SUBSET (DOMAIN RawBuildingPool) :
                  Cardinality(T) <= MaxPlacements}}

\* well-formed request bodies
Inputs ==
    {[id |-> "Plan", locations |-> ls, buildings |-> bs] :
        ls \in RawLocationLists, bs \in RawBuildingLists}

----------------------------------------------------------------------------
(* Evaluation of solutions: the planning variable is set to any value and   *)
(* the solution is scored by the constraints and by get_score_breakdown.    *)

\* the problem is built from a well-formed request body
Init ==
    /\ data \in Inputs
    /\ solution = build_solution_from_data(data)
    /\ breakdown = <<>>
    /\ best = None
    /\ pc = "evaluate"
    /\ files = {}
    /\ request = None
    /\ response = None
    /\ calls = [load |-> 0, solve |-> 0]
    /\ clock = 0
    /\ heap = <<>>
    /\ runs = <<>>
    /\ main = None
    /\ returned = <<>>

\* bp.location = value: the planning variable of placement i takes a value
\* of the value range (location_list) or None; the score is out of date
SetLocation(i, value) ==
    /\ pc = "evaluate"
    /\ solution.building_placement_list[i].location # value
    /\ solution' = [solution EXCEPT
                       !.building_placement_list[i].location = value,
                       !.score = None]
    /\ breakdown' = <<>>
    /\ UNCHANGED <<best, pc, data, files, request, response,
                   calls, clock, heap, runs, main,
                   returned>>

\* the score director sets solution.score from define_constraints
CalculateScore ==
    /\ pc = "evaluate"
    /\ solution.score = None
    /\ solution' = [solution EXCEPT !.score = HardSoftScore(solution)]
    /\ UNCHANGED <<breakdown, best, pc, data, files, request,
                   response, calls, clock, heap, runs,
                   main, returned>>

\* breakdown = get_score_breakdown(best_solution), on the scored solution
GetScoreBreakdown ==
    /\ pc = "evaluate"
    /\ solution.score # None
    /\ breakdown = <<>>
    /\ breakdown' = get_score_breakdown(solution)
    /\ UNCHANGED <<solution, best, pc, data, files, request,
                   response, calls, clock, heap, runs,
                   main, returned>>

Rebind ==
    \E i \in DOMAIN solution.building_placement_list :
        \E value \in locationRange(solution) \cup {None} :
            SetLocation(i, value)

Next == Rebind \/ CalculateScore \/ GetScoreBreakdown

Spec == Init /\ [][Next]_vars

----------------------------------------------------------------------------
(* Properties of the evaluation *)

\* the entry of a list of constraint results that carries the name
EntryNamed(entries, name) ==
    entries[CHOOSE k \in DOMAIN entries : entries[k].constraintName = name]

\* the placements of the solution that are bound to a location
AssignedIndices == {i \in DOMAIN solution.building_placement_list :
                       solution.building_placement_list[i].location # None}

Evaluated == solution # None /\ solution.score # None /\ breakdown # <<>>

\* C1: on every solution, with placements unassigned or not, each of the six
\* entries of get_score_breakdown carries the hard and soft penalty of the
\* constraint of define_constraints with the same name (the six names are
\* distinct, and the entries as a set are the constraints' results), and the
\* breakdown's summed hardPenalty and softPenalty are the score's hardValue
\* and softValue.
C1_BreakdownMatchesConstraints ==
    Evaluated =>
        /\ Len(breakdown) = 6
        /\ Cardinality({breakdown[k].constraintName : k \in DOMAIN breakdown}) = 6
        /\ Range(breakdown) = Range(define_constraints(solution))
        /\ SumOver(DOMAIN breakdown,
                   [k \in DOMAIN breakdown |-> breakdown[k].hardPenalty])
              = solution.score.hardValue
        /\ SumOver(DOMAIN breakdown,
                   [k \in DOMAIN breakdown |-> breakdown[k].softPenalty])
              = solution.score.softValue

\* an evaluated solution with one placement unassigned and two assigned, a
\* hard violation and a HOUSE-SCHOOL distance
C1_Witness ==
    /\ Evaluated
    /\ Cardinality(AssignedIndices) = 2
    /\ Len(solution.building_placement_list) = 3
    /\ solution.score.hardValue < 0
    /\ EntryNamed(breakdown, "Distance between HOUSE and SCHOOL (SOFT)").softPenalty < 0
    /\ EntryNamed(breakdown, "Building cost minimization (SOFT)").softPenalty < 0

\* the zone-compatibility table of the specification
ZoneCompatibility ==
    [bt \in BuildingType |->
        CASE bt = "HOUSE" -> {"RESIDENTIAL", "MIXED", "COMMERCIAL"}
          [] bt = "OFFICE" -> {"COMMERCIAL", "MIXED"}
          [] bt = "SHOP" -> {"COMMERCIAL", "MIXED"}
          [] bt = "SCHOOL" -> {"RESIDENTIAL", "MIXED"}
          [] bt = "HOSPITAL" -> {"RESIDENTIAL", "MIXED"}
          [] bt = "PHARMACY" -> {"RESIDENTIAL", "MIXED", "COMMERCIAL"}]

\* C2: for each of the 30 (building_type, zone) pairs,
\* is_building_type_allowed_in_zone is true exactly when the table permits the
\* type in the zone (nothing in RESTRICTED or INDUSTRIAL), and the zoning
\* penalty of a solution counts the assigned placements the table forbids.
C2_ZoneTable ==
    /\ \A bt \in BuildingType, zone \in ZoneType :
          is_building_type_allowed_in_zone(bt, zone)
              <=> zone \in ZoneCompatibility[bt]
    /\ \A bt \in BuildingType :
          ZoneCompatibility[bt] \cap {"RESTRICTED", "INDUSTRIAL"} = {}
    /\ breakdown # <<>> =>
          EntryNamed(breakdown, "Zoning mismatch (HARD)").hardPenalty
            = 0 - Cardinality({i \in AssignedIndices :
                  LET bp == solution.building_placement_list[i]
                  IN bp.location.zone \notin ZoneCompatibility[bp.building_type]})

\* a HOUSE in a COMMERCIAL zone is not counted, a placement in an INDUSTRIAL
\* zone is
C2_Witness ==
    /\ breakdown # <<>>
    /\ EntryNamed(breakdown, "Zoning mismatch (HARD)").hardPenalty = -1
    /\ \E i, j \in AssignedIndices :
          LET bps == solution.building_placement_list
          IN /\ bps[i].building_type = "HOUSE"
             /\ bps[i].location.zone = "COMMERCIAL"
             /\ bps[j].location.zone = "INDUSTRIAL"

\* the number of assigned placements bound to the location
Occupancy(location) ==
    Cardinality({i \in AssignedIndices :
        solution.building_placement_list[i].location = location})

\* C3: the 'Location uniqueness (HARD)' penalty is minus the number of
\* unordered pairs of distinct assigned placements sharing a location, each
\* pair once: k placements on one location give k*(k-1)/2, a pair with an
\* unassigned placement gives none.  Both the constraint and the breakdown.
C3_UniquenessCountsPairs ==
    LET bps == solution.building_placement_list
        sharing == {pair \in SUBSET AssignedIndices :
                       /\ Cardinality(pair) = 2
                       /\ \A i, j \in pair : bps[i].location = bps[j].location}
        locations == Range(solution.location_list)
        byLocation == SumOver(locations,
            [l \in locations |-> (Occupancy(l) * (Occupancy(l) - 1)) \div 2])
    IN Evaluated =>
        /\ build_location_uniqueness_constraint(solution).hardPenalty
              = 0 - Cardinality(sharing)
        /\ EntryNamed(breakdown, "Location uniqueness (HARD)").hardPenalty
              = 0 - Cardinality(sharing)
        /\ Cardinality(sharing) = byLocation

\* three placements are bound to one location (three pairs)
C3_Witness ==
    /\ Evaluated
    /\ \E l \in Range(solution.location_list) : Occupancy(l) = 3
    /\ EntryNamed(breakdown, "Location uniqueness (HARD)").hardPenalty = -3

\* the solution without its unassigned placements
WithoutUnassigned(sol) ==
    [sol EXCEPT !.building_placement_list =
        SelectSeq(sol.building_placement_list, LAMBDA bp : bp.location # None)]

\* C4: an unassigned placement contributes to no constraint: each of the six
\* penalties, of the constraints and of the breakdown, is that of the solution
\* without its unassigned placements, and a solution with every placement
\* unassigned scores 0 hard and 0 soft.
C4_UnassignedContributesNothing ==
    Evaluated =>
        /\ define_constraints(solution)
              = define_constraints(WithoutUnassigned(solution))
        /\ breakdown = get_score_breakdown(WithoutUnassigned(solution))
        /\ solution.score = HardSoftScore(WithoutUnassigned(solution))
        /\ AssignedIndices = {} =>
              /\ solution.score = [hardValue |-> 0, softValue |-> 0]
              /\ \A k \in 1..6 : /\ breakdown[k].hardPenalty = 0
                                 /\ breakdown[k].softPenalty = 0

\* two placements are unassigned beside an assigned one that is penalized
C4_Witness ==
    /\ Evaluated
    /\ Len(solution.building_placement_list) = 3
    /\ Cardinality(AssignedIndices) = 1
    /\ solution.score.hardValue < 0
    /\ solution.score.softValue < 0

\* every placement is bound to a location
Complete == AssignedIndices = DOMAIN solution.building_placement_list

\* the assignment breaks no hard rule
StructurallyValid ==
    LET bps == solution.building_placement_list
    IN /\ \A i \in DOMAIN bps :
             /\ bps[i].building_type
                    \in Range(bps[i].location.allowed_building_types)
             /\ bps[i].location.zone \in ZoneCompatibility[bps[i].building_type]
       /\ \A i, j \in DOMAIN bps : i # j => bps[i].location # bps[j].location

\* C7: for a complete assignment the hard value, the sum of the three hard
\* penalties, is 0 exactly when every placement's type is in its location's
\* allowed_building_types and permitted in its zone and no two placements
\* share a location; otherwise it is strictly negative.
C7_ZeroHardIffValid ==
    (Evaluated /\ Complete) =>
        LET hard == EntryNamed(breakdown, "Building in disallowed location (HARD)").hardPenalty
                    + EntryNamed(breakdown, "Zoning mismatch (HARD)").hardPenalty
                    + EntryNamed(breakdown, "Location uniqueness (HARD)").hardPenalty
        IN /\ hard = solution.score.hardValue
           /\ hard = 0 <=> StructurallyValid
           /\ hard # 0 => hard < 0

\* a complete valid assignment of two placements scores 0 hard
C7_Witness ==
    /\ Evaluated /\ Complete
    /\ Len(solution.building_placement_list) = 2
    /\ StructurallyValid
    /\ solution.score.hardValue = 0

----------------------------------------------------------------------------
(* solve.py *)

\* a variant of the demo data whose loc4 is a MIXED zone open to every type
create_initial_solution_loc4_open ==
    CityPlanSolution("Demo",
        << Location(1, "Loc1", float(0), float(0), "RESIDENTIAL", float(3),
                    <<"HOUSE", "SCHOOL", "HOSPITAL">>),
           Location(2, "Loc2", float(10), float(0), "COMMERCIAL", float(7),
                    <<"OFFICE", "SHOP", "PHARMACY">>),
           Location(3, "Loc3", float(5), float(5), "MIXED", float(10),
                    <<"HOUSE", "OFFICE", "SCHOOL", "SHOP">>),
           Location(4, "Loc4", float(20), float(5), "MIXED", float(1),
                    <<"HOUSE", "OFFICE", "SCHOOL", "SHOP">>) >>,
        << BuildingPlacement(101, "HOUSE", None),
           BuildingPlacement(102, "SCHOOL", None),
           BuildingPlacement(103, "OFFICE", None),
           BuildingPlacement(104, "SHOP", None) >>)

\* a variant of the demo data whose loc4 lists HOUSE as allowed
create_initial_solution_loc4_house ==
    CityPlanSolution("Demo",
        << Location(1, "Loc1", float(0), float(0), "RESIDENTIAL", float(3),
                    <<"HOUSE", "SCHOOL", "HOSPITAL">>),
           Location(2, "Loc2", float(10), float(0), "COMMERCIAL", float(7),
                    <<"OFFICE", "SHOP", "PHARMACY">>),
           Location(3, "Loc3", float(5), float(5), "MIXED", float(10),
                    <<"HOUSE", "OFFICE", "SCHOOL", "SHOP">>),
           Location(4, "Loc4", float(20), float(5), "RESTRICTED", float(1),
                    <<"HOUSE">>) >>,
        << BuildingPlacement(101, "HOUSE", None),
           BuildingPlacement(102, "SCHOOL", None),
           BuildingPlacement(103, "OFFICE", None),
           BuildingPlacement(104, "SHOP", None) >>)

\* create_initial_solution(): the demo dataset
create_initial_solution ==
    CityPlanSolution("Demo",
        << Location(1, "Loc1", float(0), float(0), "RESIDENTIAL", float(3),
                    <<"HOUSE", "SCHOOL", "HOSPITAL">>),
           Location(2, "Loc2", float(10), float(0), "COMMERCIAL", float(7),
                    <<"OFFICE", "SHOP", "PHARMACY">>),
           Location(3, "Loc3", float(5), float(5), "MIXED", float(10),
                    <<"HOUSE", "OFFICE", "SCHOOL", "SHOP">>),
           Location(4, "Loc4", float(20), float(5), "RESTRICTED", float(1),
                    <<>>) >>,
        << BuildingPlacement(101, "HOUSE", None),
           BuildingPlacement(102, "SCHOOL", None),
           BuildingPlacement(103, "OFFICE", None),
           BuildingPlacement(104, "SHOP", None) >>)

(* solver.solve(problem): the solver solve_city_plan configures and runs.    *)
(* The construction heuristic binds the placements in list order, each to a  *)
(* value of the value range; local search then applies change and swap      *)
(* moves, keeps the best solution seen and stops when the time budget is    *)
(* spent.  Which value or move a step picks is left open: every choice the  *)
(* configured heuristics can make is one of these.                           *)

\* score a is strictly better than score b: hard first, then soft
Better(a, b) ==
    \/ a.hardValue > b.hardValue
    \/ a.hardValue = b.hardValue /\ a.softValue > b.softValue

\* the placements of sol without a location
Unassigned(sol) == {i \in DOMAIN sol.building_placement_list :
                       sol.building_placement_list[i].location = None}

\* sol with placement i bound to value and the score recalculated
Rebound(sol, i, value) ==
    LET moved == [sol EXCEPT !.building_placement_list[i].location = value]
    IN [moved EXCEPT !.score = HardSoftScore(moved)]

\* construction heuristic: the first unassigned placement takes a value
ConstructionStep ==
    /\ pc = "construct"
    /\ Unassigned(solution) # {}
    /\ LET i == CHOOSE i \in Unassigned(solution) :
                   \A j \in Unassigned(solution) : i <= j
       IN \E value \in locationRange(solution) :
              solution' = Rebound(solution, i, value)
    /\ UNCHANGED <<breakdown, best, pc, data, files, request,
                   response, calls, clock, heap, runs,
                   main, returned>>

\* the construction heuristic is through: local search starts from its
\* solution, the best so far
ConstructionDone ==
    /\ pc = "construct"
    /\ Unassigned(solution) = {}
    /\ solution' = [solution EXCEPT !.score = HardSoftScore(solution)]
    /\ best' = solution'
    /\ pc' = "search"
    /\ clock' = 0
    /\ UNCHANGED <<breakdown, data, files, request, response,
                   calls, heap, runs, main, returned>>

\* ChangeMove: one placement moves to another location
ChangeMove ==
    /\ pc = "search"
    /\ clock < MaxSteps
    /\ \E i \in DOMAIN solution.building_placement_list :
          \E value \in locationRange(solution) :
              /\ value # solution.building_placement_list[i].location
              /\ solution' = Rebound(solution, i, value)
    /\ best' = IF Better(solution'.score, best.score) THEN solution' ELSE best
    /\ clock' = clock + 1
    /\ UNCHANGED <<breakdown, pc, data, files, request,
                   response, calls, heap, runs, main,
                   returned>>

\* SwapMove: two placements exchange their locations
SwapMove ==
    /\ pc = "search"
    /\ clock < MaxSteps
    /\ \E i, j \in DOMAIN solution.building_placement_list :
          LET bps == solution.building_placement_list
          IN /\ i < j
             /\ bps[i].location # bps[j].location
             /\ solution' = Rebound(Rebound(solution, i, bps[j].location),
                                    j, bps[i].location)
    /\ best' = IF Better(solution'.score, best.score) THEN solution' ELSE best
    /\ clock' = clock + 1
    /\ UNCHANGED <<breakdown, pc, data, files, request,
                   response, calls, heap, runs, main,
                   returned>>

\* the spent limit is checked before every step: solve returns the best
\* solution seen
Terminate ==
    /\ pc = "search"
    /\ pc' = "done"
    /\ UNCHANGED <<solution, breakdown, best, data, files,
                   request, response, calls, clock, heap,
                   runs, main, returned>>

----------------------------------------------------------------------------
(* The solver on the demo dataset *)

DemoInit ==
    /\ solution = create_initial_solution
    /\ breakdown = <<>>
    /\ best = None
    /\ pc = "construct"
    /\ data = None
    /\ files = {}
    /\ request = None
    /\ response = None
    /\ calls = [load |-> 0, solve |-> 1]
    /\ clock = 0
    /\ heap = <<>>
    /\ runs = <<>>
    /\ main = None
    /\ returned = <<>>

DemoNext ==
    ConstructionStep \/ ConstructionDone \/ ChangeMove \/ SwapMove \/ Terminate

DemoSpec == DemoInit /\ [][DemoNext]_vars

\* the index of the placement with the planning id
PlacementWithId(id) ==
    CHOOSE i \in DOMAIN solution.building_placement_list :
        solution.building_placement_list[i].id = id

\* the solution with only the placements of the index set
Only(sol, indices) ==
    [sol EXCEPT !.building_placement_list =
        [k \in 1..Cardinality(indices) |->
            sol.building_placement_list[SortedSeq(indices)[k]]]]

P101OnLoc4 ==
    solution.building_placement_list[PlacementWithId(101)].location
        = solution.location_list[4]

\* C5: on the demo dataset, every solution that binds placement 101 to loc4
\* has exactly one 'disallowed location' violation and exactly one 'Zoning
\* mismatch' violation of placement 101, whatever the other three bindings:
\* the placement alone is penalized by 1, and the solution by 1 more than the
\* solution without it.
C5_House101OnLoc4 ==
    P101OnLoc4 =>
        LET i == PlacementWithId(101)
            alone == Only(solution, {i})
            others == Only(solution, DOMAIN solution.building_placement_list \ {i})
        IN /\ build_disallowed_location_constraint(alone).hardPenalty = -1
           /\ build_zoning_mismatch_constraint(alone).hardPenalty = -1
           /\ build_disallowed_location_constraint(solution).hardPenalty
                 = build_disallowed_location_constraint(others).hardPenalty - 1
           /\ build_zoning_mismatch_constraint(solution).hardPenalty
                 = build_zoning_mismatch_constraint(others).hardPenalty - 1

\* the solver returned with 101 on loc4, 102 beside it and 103 elsewhere
C5_Witness ==
    /\ pc = "done"
    /\ P101OnLoc4
    /\ solution.building_placement_list[PlacementWithId(102)].location
          = solution.location_list[4]
    /\ solution.building_placement_list[PlacementWithId(103)].location
          = solution.location_list[2]
    /\ build_disallowed_location_constraint(solution).hardPenalty = -2

\* C6 as stated: the solver run to completion returns a solution with
\* hardValue = 0.
C6_Original == pc = "done" => best.score.hardValue = 0

\* C6: on the demo dataset no complete assignment of the four placements to
\* the four locations is free of hard violations: HOUSE and SCHOOL fit only
\* loc1 and loc3, OFFICE and SHOP only loc2 and loc3, so every complete
\* assignment has hardValue <= -1, and so has the solution the solver returns.
C6_DemoHardAtMostMinusOne ==
    /\ (solution.score # None /\ Complete) => solution.score.hardValue <= -1
    /\ pc = "done" =>
          /\ Unassigned(best) = {}
          /\ best.score = HardSoftScore(best)
          /\ best.score.hardValue <= -1

\* the solver returned a solution with a single hard violation
C6_Witness ==
    /\ pc = "done"
    /\ best.score.hardValue = -1

----------------------------------------------------------------------------
(* app.py: the HTTP handlers *)

\* TEST_DATA_DIR
TEST_DATA_DIR == "test_data"

\* os.path.join(TEST_DATA_DIR, f"{plan_name}.json")
PlanPath(plan_name) == <<TEST_DATA_DIR, <<plan_name, ".json">>>>

\* the plan names requests ask for
PlanNames == {"PlanSmall", "PlanMedium"}

\* a well-formed body of the first nl pool locations and the first nb pool
\* buildings
Body(nl, nb) ==
    [id |-> "Plan",
     locations |-> [i \in 1..nl |-> RawLocationPool[i]],
     buildings |-> [i \in 1..nb |-> RawBuildingPool[i]]]

\* json.load(f) of a plan file: the fixtures are well-formed and have
\* locations; PlanMedium has more buildings than locations
FileContent(path) ==
    IF path = PlanPath("PlanSmall") THEN Body(2, 2) ELSE Body(2, 3)

\* the object obj without the key
Without(obj, key) == [k \in (DOMAIN obj) \ {key} |-> obj[k]]

\* bodies that lack one field: of the body, of its location or of its
\* building
BodiesMissingAField ==
    LET base == Body(1, 1)
    IN {Without(base, key) : key \in DOMAIN base}
       \cup {[base EXCEPT !.locations = <<Without(base.locations[1], key)>>] :
                key \in DOMAIN base.locations[1]}
       \cup {[base EXCEPT !.buildings = <<Without(base.buildings[1], key)>>] :
                key \in DOMAIN base.buildings[1]}

\* the bodies of POST /solve: well-formed ones, with locations lists that are
\* empty or shorter than the buildings list, bodies lacking a field and the
\* empty object
RequestBodies ==
    {Body(nl, nb) : nl \in 0..MaxLocations, nb \in 0..MaxPlacements}
    \cup BodiesMissingAField \cup {<<>>}

\* str(solution.score)
str(score) == [str |-> score]

\* solution_to_dict(solution, breakdown)
solution_to_dict(sol, bd) ==
    [solution_id |-> sol.id,
     score |-> IF sol.score # None THEN str(sol.score) ELSE [str |-> "None"],
     placements |->
        [i \in DOMAIN sol.building_placement_list |->
            LET bp == sol.building_placement_list[i]
            IN [id |-> bp.id, building_type |-> bp.building_type,
                location |-> IF Truthy(bp.location)
                             THEN [id |-> bp.location.id,
                                   name |-> bp.location.name,
                                   x |-> bp.location.x, y |-> bp.location.y,
                                   zone |-> bp.location.zone,
                                   cost_factor |-> bp.location.cost_factor]
                             ELSE None]],
     constraintBreakdown |-> bd]

NoCalls == [load |-> 0, solve |-> 0]

\* an exception leaves the handler: the request ends with a server error
Crash(exception) ==
    /\ pc' = "crashed"
    /\ response' = [status |-> 500, error |-> exception]

\* problem = <loaded>; best_solution = solve_city_plan(problem): the solver
\* starts on the problem, or the exception of the load leaves the handler
LoadAndSolve(req, d, problem) ==
    /\ request' = req
    /\ data' = d
    /\ calls' = [load |-> 1, solve |-> IF IsError(problem) THEN 0 ELSE 1]
    /\ IF IsError(problem)
       THEN Crash(problem) /\ UNCHANGED solution
       ELSE /\ solution' = problem
            /\ pc' = "construct"
            /\ UNCHANGED response
    /\ UNCHANGED <<breakdown, best, files, clock, heap, runs,
                   main, returned>>

\* with open(path) ...: json.load(f), then build_solution_from_data
load_solution_from_json(req, path) ==
    IF path \in files
    THEN LoadAndSolve(req, FileContent(path),
                      build_solution_from_data(FileContent(path)))
    ELSE /\ request' = req
         /\ Crash(Raise("FileNotFoundError", path))
         /\ calls' = [load |-> 1, solve |-> 0]
         /\ UNCHANGED <<solution, breakdown, best, data, files,
                   clock, heap, runs, main, returned>>

\* GET /solve: loads PlanSmall
solve_endpoint_get ==
    /\ pc = "idle"
    /\ load_solution_from_json([method |-> "GET", route |-> "/solve"],
                               PlanPath("PlanSmall"))

\* POST /solve: data = request.get_json() or {}
solve_endpoint_post(body) ==
    /\ pc = "idle"
    /\ LoadAndSolve([method |-> "POST", route |-> "/solve"], body,
                    build_solution_from_data(body))

\* a variant without the os.path.exists test
solve_with_plan_unchecked(plan_name) ==
    /\ pc = "idle"
    /\ load_solution_from_json([method |-> "GET", route |-> "/solve/<plan_name>",
                                plan_name |-> plan_name],
                               PlanPath(plan_name))

\* GET /solve/<plan_name>
solve_with_plan(plan_name) ==
    /\ pc = "idle"
    /\ IF PlanPath(plan_name) \notin files
       THEN /\ request' = [method |-> "GET", route |-> "/solve/<plan_name>",
                           plan_name |-> plan_name]
            /\ response' = [status |-> 404,
                            error |-> <<"No such plan file: ",
                                        <<plan_name, ".json">>>>]
            /\ pc' = "responded"
            /\ UNCHANGED <<solution, breakdown, best, data, files,
                   calls, clock, heap, runs, main,
                   returned>>
       ELSE load_solution_from_json([method |-> "GET",
                                     route |-> "/solve/<plan_name>",
                                     plan_name |-> plan_name],
                                    PlanPath(plan_name))

\* breakdown = get_score_breakdown(best_solution);
\* return jsonify(solution_to_dict(best_solution, breakdown))
Respond ==
    /\ pc = "done"
    /\ breakdown' = get_score_breakdown(best)
    /\ response' = [status |-> 200, json |-> solution_to_dict(best, breakdown')]
    /\ pc' = "responded"
    /\ UNCHANGED <<solution, best, data, files, request, calls,
                   clock, heap, runs, main, returned>>

(* The solver on a problem whose value range is empty: no placement can be  *)
(* bound.  The engine then either hands the problem back with its           *)
(* placements unassigned or refuses to search an uninitialized solution.    *)

ReturnUninitialized ==
    /\ pc = "construct"
    /\ Unassigned(solution) # {}
    /\ locationRange(solution) = {}
    /\ solution' = [solution EXCEPT !.score = HardSoftScore(solution)]
    /\ best' = solution'
    /\ pc' = "done"
    /\ UNCHANGED <<breakdown, data, files, request, response,
                   calls, clock, heap, runs, main,
                   returned>>

RaiseUninitialized ==
    /\ pc = "construct"
    /\ Unassigned(solution) # {}
    /\ locationRange(solution) = {}
    /\ Crash(Raise("IllegalStateException", "uninitialized solution"))
    /\ UNCHANGED <<solution, breakdown, best, data, files,
                   request, calls, clock, heap, runs,
                   main, returned>>

AppInit ==
    /\ solution = None
    /\ breakdown = <<>>
    /\ best = None
    /\ pc = "idle"
    /\ data = None
    /\ files \in {{PlanPath(name)} : name \in PlanNames}
    /\ request = None
    /\ response = None
    /\ calls = NoCalls
    /\ clock = 0
    /\ heap = <<>>
    /\ runs = <<>>
    /\ main = None
    /\ returned = <<>>

PostSolve == \E body \in RequestBodies : solve_endpoint_post(body)

GetSolveWithPlan == \E plan_name \in PlanNames : solve_with_plan(plan_name)

AppNext ==
    \/ solve_endpoint_get
    \/ PostSolve
    \/ GetSolveWithPlan
    \/ ConstructionStep
    \/ ConstructionDone
    \/ ReturnUninitialized
    \/ RaiseUninitialized
    \/ ChangeMove
    \/ SwapMove
    \/ Terminate
    \/ Respond

\* a started handler runs on: the solver steps until its budget is spent
AppSpec == AppInit /\ [][AppNext]_vars /\ WF_vars(AppNext)

----------------------------------------------------------------------------
(* Properties of the handlers *)

\* every placement of sol is bound to a member of sol's location_list
TotalAssignment(sol) ==
    \A i \in DOMAIN sol.building_placement_list :
        sol.building_placement_list[i].location \in Range(sol.location_list)

\* C8 as stated: after solve_city_plan returns, every placement of the
\* returned solution is assigned to a member of its location_list, for every
\* input, one with an empty location list included.
C8_Original == pc = "done" => TotalAssignment(best)

\* one step of solver.solve
SolverStep ==
    \/ Terminate
    \/ ConstructionDone
    \/ ReturnUninitialized
    \/ RaiseUninitialized
    \/ ConstructionStep
    \/ ChangeMove
    \/ SwapMove

\* what is left of a call of solve_city_plan: the placements the construction
\* heuristic has still to bind, then the steps left of the time budget
SolverMeasure ==
    IF pc = "construct"
    THEN MaxSteps + 2 + Cardinality(Unassigned(solution))
    ELSE IF pc = "search" THEN MaxSteps + 1 - clock ELSE 0

\* a step of a running solver lowers the measure
SolverNearsItsEnd ==
    pc \in {"construct", "search"} => (SolverMeasure' < SolverMeasure)

\* the solver raises on no problem that has locations
RaisesOnlyWithoutLocations ==
    (pc = "construct" /\ pc' = "crashed") => (solution.location_list = <<>>)

\* C8: for every input problem whose location list is not empty, also when it
\* is shorter than the placement list, solve_city_plan terminates by
\* returning, and every placement of the returned solution is assigned to a
\* member of its location_list.  With an empty location list the call
\* terminates too, by returning or by raising, with no placement bound.
\* Termination: a running solver always has a step to take, every step
\* brings it nearer to its end, and only an empty location list makes it
\* raise.
C8_TotalWhenLocationsExist ==
    /\ []((pc = "done" /\ best.location_list # <<>>) => TotalAssignment(best))
    /\ []((pc = "done" /\ best.location_list = <<>>) =>
              Unassigned(best) = DOMAIN best.building_placement_list)
    /\ [](pc \in {"construct", "search"} => ENABLED SolverStep)
    /\ [][SolverNearsItsEnd]_vars
    /\ [][RaisesOnlyWithoutLocations]_vars

\* the solver returned three placements bound to two locations
C8_Witness ==
    /\ pc = "done"
    /\ Len(best.location_list) = 2
    /\ Len(best.building_placement_list) = 3
    /\ TotalAssignment(best)
    /\ clock > 0

IsPost == request # None /\ request.method = "POST"

\* the body's locations / buildings, as the handler reads them
RawLocations == Get(data, "locations", <<>>)
RawBuildings == Get(data, "buildings", <<>>)

\* a location or a building of the body lacks a field it must have
ElementFieldMissing ==
    \/ \E i \in DOMAIN RawLocations :
          {"id", "name", "x", "y", "zone"} \ DOMAIN RawLocations[i] # {}
    \/ \E i \in DOMAIN RawBuildings :
          {"id", "building_type"} \ DOMAIN RawBuildings[i] # {}

\* the body lacks id, locations or buildings
TopLevelFieldMissing == {"id", "locations", "buildings"} \ DOMAIN data # {}

RaisedKeyError ==
    /\ pc = "crashed"
    /\ response.status = 500
    /\ response.error.raised = "KeyError"

\* C9 as stated: a missing field raises an error, be it the top-level id,
\* locations or buildings, or a field of a location or of a building other
\* than cost_factor and allowed_building_types.
C9_Original ==
    (IsPost /\ (TopLevelFieldMissing \/ ElementFieldMissing)) => RaisedKeyError

\* C9: a location without id, name, x, y or zone and a building without id or
\* building_type raise an error (KeyError) and nothing is built; no other
\* missing field raises.  Defaulted are a location's cost_factor (1.0) and
\* allowed_building_types (empty), and also the top-level id ("NoNamePlan";
\* "PlanX" in benchmark.py), locations (empty) and buildings (empty); every
\* field that is present is taken from the input.  The loader of benchmark.py
\* decodes every body as the one of app.py does, the default id apart.
C9_RequiredElementFields ==
    /\ IsPost =>
          IF ElementFieldMissing
          THEN /\ RaisedKeyError
               /\ response.error.what
                     \in {"id", "name", "x", "y", "zone", "building_type"}
               /\ solution = None
               /\ calls.solve = 0
          ELSE /\ ~RaisedKeyError
               /\ solution # None
               /\ solution.id = IF "id" \in DOMAIN data THEN data.id
                                ELSE "NoNamePlan"
               /\ Len(solution.location_list) = Len(RawLocations)
               /\ \A i \in DOMAIN RawLocations :
                     LET raw == RawLocations[i]
                         loc == solution.location_list[i]
                     IN /\ loc.id = raw.id /\ loc.name = raw.name
                        /\ loc.x = float(raw.x) /\ loc.y = float(raw.y)
                        /\ loc.zone = raw.zone
                        /\ loc.cost_factor =
                              IF "cost_factor" \in DOMAIN raw
                              THEN float(raw.cost_factor) ELSE 1000
                        /\ loc.allowed_building_types =
                              IF "allowed_building_types" \in DOMAIN raw
                              THEN raw.allowed_building_types ELSE <<>>
               /\ Len(solution.building_placement_list) = Len(RawBuildings)
               /\ \A i \in DOMAIN RawBuildings :
                     LET bp == solution.building_placement_list[i]
                     IN /\ bp.id = RawBuildings[i].id
                        /\ bp.building_type = RawBuildings[i].building_type
    /\ pc = "idle" =>
          \A body \in RequestBodies :
              LET app == build_solution_from_data(body)
                  bench == benchmark_load_solution_from_json(body)
              IN IF IsError(app) THEN bench = app
                 ELSE bench = [app EXCEPT !.id = IF "id" \in DOMAIN body
                                                THEN body.id ELSE "PlanX"]

\* a body whose location has no zone was refused with KeyError
C9_Witness ==
    /\ IsPost
    /\ "locations" \in DOMAIN data /\ Len(data.locations) = 1
    /\ "zone" \notin DOMAIN data.locations[1]
    /\ RaisedKeyError
    /\ response.error.what = "zone"

IsPlanRequest == request # None /\ request.route = "/solve/<plan_name>"

\* C10: GET /solve/<plan_name> for a plan without a file is answered with
\* 404, without a problem being loaded or the solver invoked, and never with
\* a crash; for a plan with a file the handler loads the file's problem,
\* solves it and answers with the solution.
C10_MissingPlanNotFound ==
    IsPlanRequest =>
        IF PlanPath(request.plan_name) \notin files
        THEN /\ pc = "responded"
             /\ response.status = 404
             /\ calls = NoCalls
             /\ solution = None /\ best = None /\ breakdown = <<>>
        ELSE /\ pc # "crashed"
             /\ calls = [load |-> 1, solve |-> 1]
             /\ data = FileContent(PlanPath(request.plan_name))
             /\ solution # None
             /\ solution.location_list
                   = build_solution_from_data(data).location_list
             /\ pc = "responded" =>
                   /\ response.status = 200
                   /\ response.json = solution_to_dict(best, breakdown)
                   /\ TotalAssignment(best)
                   /\ {bp.id : bp \in Range(best.building_placement_list)}
                         = {b.id : b \in Range(data.buildings)}

\* a plan without a file was asked for and answered with 404
C10_Witness ==
    /\ IsPlanRequest
    /\ PlanPath(request.plan_name) \notin files
    /\ files # {}
    /\ response.status = 404

----------------------------------------------------------------------------
(* The solve calls of the two programs, app.py and benchmark.py, and the     *)
(* solution instances they are handed.  An instance is a CityPlanSolution    *)
(* object with the Location and BuildingPlacement objects one decoding built *)
(* for it; heap[o] is its present value, with the solve calls it was handed *)
(* to, the ones that read it and the ones that wrote it.                     *)

\* the instance no live object has
NewObject ==
    CHOOSE o \in 1..(Cardinality(DOMAIN heap) + 1) : o \notin DOMAIN heap

\* the heap h with the new instance o of the value, made by the call
\* (no call when a loader made it)
Allocate(h, o, value, made_by) ==
    [x \in (DOMAIN h) \cup {o} |->
        IF x = o
        THEN [value |-> value, handed_to |-> {}, read_by |-> {},
              written_by |-> made_by]
        ELSE h[x]]

\* solver.solve(o): instance o is the problem of the call
Hand(h, o, call) == [h EXCEPT ![o].handed_to = @ \cup {call}]

\* the call reads the objects of instance o
Read(h, o, call) == [h EXCEPT ![o].read_by = @ \cup {call}]

\* the call writes the objects of instance o: they now hold the value
Write(h, o, call, value) ==
    [h EXCEPT ![o].value = value, ![o].written_by = @ \cup {call}]

\* the heap h without the instances nothing refers to any more
Free(h, garbage) == [x \in (DOMAIN h) \ garbage |-> h[x]]

\* runs with the call added or dropped
Started(call, problem) ==
    [c \in (DOMAIN runs) \cup {call} |->
        IF c = call
        THEN [problem |-> problem, working |-> 0, phase |-> "called",
              clock |-> 0]
        ELSE runs[c]]

Ended(call) == [c \in (DOMAIN runs) \ {call} |-> runs[c]]

\* benchmark.py main: test_files and configs
test_files == <<"PlanSmall", "PlanMedium", "PlanLarge">>

configs ==
    << [name |-> "DefaultLS", lsType |-> "None"],
       [name |-> "LateAcceptance", lsType |-> "LATE_ACCEPTANCE"],
       [name |-> "TabuSearch", lsType |-> "TABU_SEARCH"] >>

\* the clients whose requests the server handles at the same time
Clients == {"a", "b"}

\* the bodies they post
SolveBodies == {Body(1, 1), Body(2, 2)}

\* the old variables of the single operation stay as they are
OperationUnchanged ==
    UNCHANGED <<solution, breakdown, best, pc, data, files, request,
                response, calls, clock, returned>>

\* for f in test_files: solution = load_solution_from_json(f)
main_load ==
    /\ main.program = "benchmark"
    /\ main.c \notin DOMAIN configs
    /\ main.f < Len(test_files)
    /\ runs = <<>>
    /\ LET o == NewObject
       IN /\ heap' = Allocate(Free(heap, DOMAIN heap), o,
                        benchmark_load_solution_from_json(
                            FileContent(PlanPath(test_files[main.f + 1]))), {})
          /\ main' = [main EXCEPT !.f = @ + 1, !.c = 1, !.solution = o]
    /\ UNCHANGED runs
    /\ OperationUnchanged

\* for cfg in configs: run_solver(solution, ...) calls solver.solve(solution)
main_run_solver ==
    /\ main.program = "benchmark"
    /\ main.c \in DOMAIN configs
    /\ runs = <<>>
    /\ runs' = Started(<<"main", main.f, main.c>>, main.solution)
    /\ heap' = Hand(heap, main.solution, <<"main", main.f, main.c>>)
    /\ UNCHANGED main
    /\ OperationUnchanged

\* return best_solution.score, elapsed: the next configuration is due; the
\* solver and what it cloned are dropped
run_solver_return ==
    /\ main.program = "benchmark"
    /\ \E call \in DOMAIN runs :
          /\ runs[call].phase = "search"
          /\ runs' = Ended(call)
          /\ heap' = Free(Read(heap, runs[call].working, call),
                          {runs[call].working} \ {main.solution})
    /\ main' = [main EXCEPT !.c = @ + 1]
    /\ OperationUnchanged

\* app.py: a client's request arrives; the handler builds the problem from
\* the body and calls solve_city_plan(problem)
http_solve(client, body) ==
    /\ main.program = "app"
    /\ <<"http", client, 0>> \notin DOMAIN runs
    /\ client \notin main.served
    /\ LET o == NewObject
       IN /\ heap' = Hand(Allocate(heap, o, build_solution_from_data(body),
                                    {}),
                           o, <<"http", client, 0>>)
          /\ runs' = Started(<<"http", client, 0>>, o)
    /\ UNCHANGED main
    /\ OperationUnchanged

\* get_score_breakdown(best_solution), solution_to_dict: the handler reads
\* the solution it got and answers; its objects are dropped
http_respond(client) ==
    /\ main.program = "app"
    /\ LET call == <<"http", client, 0>>
       IN /\ call \in DOMAIN runs
          /\ runs[call].phase = "search"
          /\ runs' = Ended(call)
          /\ heap' = Free(Read(heap, runs[call].working, call),
                          {runs[call].problem, runs[call].working})
    /\ main' = [main EXCEPT !.served = @ \cup {client}]
    /\ OperationUnchanged

(* solver.solve(problem) of one call.  Whether the engine binds the objects *)
(* it is handed or a planning clone of them is the engine's affair: both    *)
(* are modelled.                                                            *)

solver_solve_in_place(call) ==
    /\ runs[call].phase = "called"
    /\ heap' = Read(heap, runs[call].problem, call)
    /\ runs' = [runs EXCEPT ![call].working = runs[call].problem,
                            ![call].phase = "construct"]
    /\ UNCHANGED main
    /\ OperationUnchanged

solver_solve_on_clone(call) ==
    /\ runs[call].phase = "called"
    /\ LET o == NewObject
       IN /\ heap' = Allocate(Read(heap, runs[call].problem, call), o,
                              heap[runs[call].problem].value, {call})
          /\ runs' = [runs EXCEPT ![call].working = o,
                                  ![call].phase = "construct"]
    /\ UNCHANGED main
    /\ OperationUnchanged

\* construction heuristic on the working solution of the call
solver_construct(call) ==
    /\ runs[call].phase = "construct"
    /\ LET o == runs[call].working
           sol == heap[o].value
       IN IF Unassigned(sol) # {} /\ locationRange(sol) # {}
          THEN /\ LET i == CHOOSE i \in Unassigned(sol) :
                              \A j \in Unassigned(sol) : i <= j
                  IN \E value \in locationRange(sol) :
                        heap' = Write(Read(heap, o, call), o, call,
                                      Rebound(sol, i, value))
               /\ UNCHANGED runs
          ELSE /\ heap' = Write(Read(heap, o, call), o, call,
                                [sol EXCEPT !.score = HardSoftScore(sol)])
               /\ runs' = [runs EXCEPT ![call].phase = "search"]
    /\ UNCHANGED main
    /\ OperationUnchanged

\* a change move of local search on the working solution of the call
solver_move(call) ==
    /\ runs[call].phase = "search"
    /\ runs[call].clock < MaxSteps
    /\ LET o == runs[call].working
           sol == heap[o].value
       IN \E i \in DOMAIN sol.building_placement_list :
             \E value \in locationRange(sol) :
                /\ value # sol.building_placement_list[i].location
                /\ heap' = Write(Read(heap, o, call), o, call,
                                 Rebound(sol, i, value))
    /\ runs' = [runs EXCEPT ![call].clock = @ + 1]
    /\ UNCHANGED main
    /\ OperationUnchanged

SolveCallsInit ==
    /\ solution = None
    /\ breakdown = <<>>
    /\ best = None
    /\ pc = "idle"
    /\ data = None
    /\ files = {PlanPath(test_files[f]) : f \in DOMAIN test_files}
    /\ request = None
    /\ response = None
    /\ calls = NoCalls
    /\ clock = 0
    /\ heap = <<>>
    /\ runs = <<>>
    /\ main \in {[program |-> "app", f |-> 0, c |-> 0, solution |-> 0,
                  served |-> {}],
                 [program |-> "benchmark", f |-> 0, c |-> 0, solution |-> 0,
                  served |-> {}]}
    /\ returned = <<>>

HttpSolve == \E client \in Clients : \E body \in SolveBodies :
                 http_solve(client, body)

HttpRespond == \E client \in Clients : http_respond(client)

SolverSolveInPlace == \E call \in DOMAIN runs : solver_solve_in_place(call)

SolverSolveOnClone == \E call \in DOMAIN runs : solver_solve_on_clone(call)

SolverConstruct == \E call \in DOMAIN runs : solver_construct(call)

SolverMove == \E call \in DOMAIN runs : solver_move(call)

SolveCallsNext ==
    \/ main_load
    \/ main_run_solver
    \/ run_solver_return
    \/ HttpSolve
    \/ HttpRespond
    \/ SolverSolveInPlace
    \/ SolverSolveOnClone
    \/ SolverConstruct
    \/ SolverMove

SolveCallsSpec == SolveCallsInit /\ [][SolveCallsNext]_vars

\* the solve calls that touched instance o
TouchedBy(o) == heap[o].read_by \cup heap[o].written_by

\* C11: every solve call operates on its own solution instance: no instance
\* is handed to two solve calls, and no instance that one solve call wrote is
\* read or written by another, in the interleaved requests of app.py and in
\* the successive solver runs of benchmark.py.
C11_Original ==
    \A o \in DOMAIN heap :
        /\ Cardinality(heap[o].handed_to) <= 1
        /\ \A writer \in heap[o].written_by : TouchedBy(o) = {writer}

----------------------------------------------------------------------------
(* Repeated evaluation: get_score_breakdown called again and again on a      *)
(* solution, which is modified in between                                    *)

\* bp.location = value: placement i is bound anew or unbound; what was
\* returned before is of the solution as it was
Modify ==
    /\ pc = "evaluate"
    /\ \E i \in DOMAIN solution.building_placement_list :
          \E value \in locationRange(solution) \cup {None} :
             /\ value # solution.building_placement_list[i].location
             /\ solution' =
                   [solution EXCEPT !.building_placement_list[i].location =
                                        value]
    /\ breakdown' = <<>>
    /\ returned' = <<>>
    /\ UNCHANGED <<best, pc, data, files, request, response, calls, clock,
                   heap, runs, main>>

\* a variant whose counters and sums are module globals that no call resets:
\* a call adds its penalties to those of the call before
get_score_breakdown_call_global_counters ==
    /\ pc = "evaluate"
    /\ Len(returned) < MaxCalls
    /\ LET fresh == get_score_breakdown(solution)
           before == returned[Len(returned)]
       IN breakdown' =
             IF returned = <<>> THEN fresh
             ELSE [k \in DOMAIN fresh |->
                     [fresh[k] EXCEPT
                        !.hardPenalty = @ + before[k].hardPenalty,
                        !.softPenalty = @ + before[k].softPenalty]]
    /\ returned' = Append(returned, breakdown')
    /\ UNCHANGED <<solution, best, pc, data, files, request, response,
                   calls, clock, heap, runs, main>>

\* breakdown = get_score_breakdown(solution): the function reads the
\* placements and their locations, assigns only to its local variables and
\* returns the list it built
get_score_breakdown_call ==
    /\ pc = "evaluate"
    /\ Len(returned) < MaxCalls
    /\ breakdown' = get_score_breakdown(solution)
    /\ returned' = Append(returned, breakdown')
    /\ UNCHANGED <<solution, best, pc, data, files, request, response,
                   calls, clock, heap, runs, main>>

EvaluateInit ==
    /\ data \in Inputs
    /\ solution = build_solution_from_data(data)
    /\ breakdown = <<>>
    /\ best = None
    /\ pc = "evaluate"
    /\ files = {}
    /\ request = None
    /\ response = None
    /\ calls = NoCalls
    /\ clock = 0
    /\ heap = <<>>
    /\ runs = <<>>
    /\ main = None
    /\ returned = <<>>

EvaluateNext == Modify \/ get_score_breakdown_call

EvaluateSpec == EvaluateInit /\ [][EvaluateNext]_vars

\* the names of the six entries, in the order of the list
BreakdownNames ==
    << "Building in disallowed location (HARD)",
       "Zoning mismatch (HARD)",
       "Location uniqueness (HARD)",
       "Distance between HOUSE and SCHOOL (SOFT)",
       "Distance between HOUSE and OFFICE (SOFT)",
       "Building cost minimization (SOFT)" >>

\* what the calls on the unmodified solution returned is one and the same
\* list of the six entries
SameBreakdowns ==
    \A k \in DOMAIN returned :
        /\ returned[k] = returned[1]
        /\ [e \in DOMAIN returned[k] |-> returned[k][e].constraintName]
               = BreakdownNames

\* a step in which get_score_breakdown returns changes nothing but the
\* caller's record of what it returned
CallChangesNothing ==
    Len(returned') > Len(returned) =>
        /\ solution' = solution
        /\ UNCHANGED <<best, pc, data, files, request, response, calls,
                       clock, heap, runs, main>>

====
